---- MODULE Spec2Model ----
(***************************************************************************)
(* Model of the FOC control core:                                          *)
(*   - the fixed-point trigonometric engine and the transforms of          *)
(*     MPC_math.c (limitTheta, sin2, cos2, computeSinCos, parkTransform,   *)
(*     clarkeTransform),                                                   *)
(*   - the generic PWM and current feedback layer of pwm_curr_fdbk.c       *)
(*     (PWMC_SetPhaseVoltage, PWMC_CurrentReadingCalibr,                   *)
(*     PWMC_CalcPhaseCurrentsEst with its low-pass filter, and the         *)
(*     dispatch functions that call through the handle's callback          *)
(*     pointers).                                                          *)
(*                                                                         *)
(* The specifications share the variables:                                 *)
(*   SpecTrig     one call of a trigonometric function on a drawn angle    *)
(*   SpecPark     computeSinCos and the transforms that read its globals   *)
(*   SpecParkRange parkTransform on phase values over the whole range of   *)
(*                a short                                                  *)
(*   SpecSVPWM    PWMC_SetPhaseVoltage calls interleaved with the current  *)
(*                readings that dead-time compensation consumes            *)
(*   SpecExample  the worked example of the duty computation               *)
(*   SpecLPF      the low-pass filters of the estimator                    *)
(*   SpecEst      the estimator next to the current reading and the duty   *)
(*                computation                                              *)
(*   SpecRevClarke the reverse Clarke step of the estimator over the whole *)
(*                16-bit range of alpha and beta                           *)
(*   SpecCalibr   START / EXEC sequences of PWMC_CurrentReadingCalibr      *)
(*   SpecDispatch the dispatch functions under both builds                 *)
(*                (NULL_PTR_PWR_CUR_FDB defined or not), with null handles *)
(*                and unbound callbacks                                    *)
(***************************************************************************)
EXTENDS Integers, Sequences, FiniteSets, TLC

VARIABLES
    tOp,        \* trig engine: the function last called ("none" before any call)
    tArg,       \* trig engine: its argument (a short)
    tRet,       \* trig engine: its return value
    tIdx,       \* trig engine: the sinTable indices the call read, in order
    trig,       \* the globals sin000, sin120, sin240, cos000, cos120, cos240
    tAbc,       \* transforms: the arguments a, b, c of the last call
    Xdq,        \* the qd_t that parkTransform writes (d, q)
    Xalbt,      \* the alphabeta_t that clarkeTransform writes (alpha, beta)
    nullChk,    \* build option: NULL_PTR_PWR_CUR_FDB is defined
    misra,      \* build option: FULL_MISRA_C_COMPLIANCY_PWM_CURR is defined
    pHandle,    \* the PWMC_Handle_t record
    pFct,       \* the handle's callback pointers: TRUE = bound, FALSE = MC_NULL
    op,         \* PWMC layer: the function last called, with its arguments
    ret,        \* PWMC layer: its return value ("void" for a void function)
    calls,      \* callbacks invoked by the last call, in order, each with the
                \* Sector and counters it could observe and what it answered
    ub,         \* the last call dereferenced MC_NULL (undefined behaviour)
    hist,       \* calibration history since the last CRC_START, and whether
                \* that START found a countdown still running
    est         \* estimator history: the last Iqd handed in, the filter
                \* outputs before and after the last call, and the calls
                \* made in a row with that same Iqd

vars == <<tOp, tArg, tRet, tIdx, trig, tAbc, Xdq, Xalbt,
          nullChk, misra, pHandle, pFct, op, ret, calls, ub, hist, est>>

trigVars == <<tOp, tArg, tRet, tIdx, trig, tAbc, Xdq, Xalbt>>
pwmcVars == <<nullChk, misra, pHandle, pFct, op, ret, calls, ub, hist, est>>

(***************************************************************************)
(* C integer arithmetic                                                    *)
(***************************************************************************)

\* C's integer division truncates toward zero (b > 0 at every use).
CDiv(a, b) == IF a >= 0 THEN a \div b ELSE -((-a) \div b)

\* Conversion of an int to a 16-bit signed integer (short, int16_t).
ToInt16(x) == ((x + 2^15) % 2^16) - 2^15

\* Conversion of an int to uint16_t.
ToUint16(x) == x % 2^16

Int16Min == -(2^15)
Int16Max == 2^15 - 1

MAX(a, b) == IF a > b THEN a ELSE b

(***************************************************************************)
(* Trigonometric engine (MPC_math.c)                                       *)
(***************************************************************************)

sinTable ==
    <<0,9,18,27,36,45,54,62,71,80,89,98,106,115,124,133,141,150,158,167,175,
      183,192,200,208,216,224,232,240,248,256,264,271,279,286,294,301,308,
      315,322,329,336,343,349,356,362,368,374,380,386,392,398,403,409,414,
      419,424,429,434,439,443,448,452,456,460,464,468,471,475,478,481,484,
      487,490,492,495,497,499,501,503,504,506,507,508,509,510,511,511,512,
      512,512>>

\* Valid indices of sinTable (C indexing, from 0).
SinTableIndex == 0 .. (Len(sinTable) - 1)

\* What a read of sinTable outside its 91 entries can yield: the uint16_t
\* stored next to the table is not determined by the program.  Two sample
\* words stand for it: one that looks like a table entry and one that does not.
OobWords == {0, 40000}

\* short limitTheta(short theta)
limitTheta(theta) ==
    IF theta < 0
    THEN ToInt16((360 + theta) - 360 * (1 + CDiv(theta, 360)))
    ELSE ToInt16(theta - 360 * CDiv(theta, 360))

\* The sinTable index sin2 reads for the limited angle t.
Sin2Index(t) ==
    IF t <= 90 THEN t
    ELSE IF t > 90 /\ t <= 180 THEN 180 - t
    ELSE IF t > 180 /\ t <= 270 THEN t - 180
    ELSE 360 - t

\* Whether sin2 negates the table entry for the limited angle t.
Sin2Negates(t) == ~(t <= 90) /\ ~(t > 90 /\ t <= 180)

\* The words a read of sinTable[i] can yield.
TableRead(i) == IF i \in SinTableIndex THEN {sinTable[i + 1]} ELSE OobWords

\* short sin2(short thetaElec): the values the call can return.
sin2(thetaElec) ==
    LET t == limitTheta(thetaElec)
    IN  {ToInt16(IF Sin2Negates(t) THEN -w ELSE w) : w \in TableRead(Sin2Index(t))}

\* The index the call sin2(thetaElec) reads.
sin2Idx(thetaElec) == Sin2Index(limitTheta(thetaElec))

\* short cos2(short theta): sin2(theta+90), the int argument converted to short.
cos2(theta) == sin2(ToInt16(theta + 90))

cos2Idx(theta) == sin2Idx(ToInt16(theta + 90))

\* The angles computeSinCos hands to sin2, in the order of its six
\* assignments: sin000, cos000, sin120, sin240, cos120, cos240.
SinCosAngles(thetaElec) ==
    LET th == ToInt16(thetaElec + 90)
    IN  << th,
           ToInt16(th + 90),
           ToInt16(th + 120),
           ToInt16(th + 240),
           ToInt16(ToInt16(th + 120) + 90),
           ToInt16(ToInt16(th + 240) + 90) >>

TrigZero == [sin000 |-> 0, sin120 |-> 0, sin240 |-> 0,
             cos000 |-> 0, cos120 |-> 0, cos240 |-> 0]

\* The caller's output structures before a transform has written them.
XdqZero == [d |-> 0, q |-> 0]
XalbtZero == [alpha |-> 0, beta |-> 0]

\* Bounds of the angles drawn: every angle within MaxTheta of zero, and the
\* EdgeWidth angles next to each end of the 16-bit range.
MaxTheta == 450
EdgeWidth == 340

ThetaInputs ==
    ((-MaxTheta) .. MaxTheta)
    \cup (Int16Min .. (Int16Min + EdgeWidth))
    \cup ((Int16Max - EdgeWidth) .. Int16Max)

CallLimitTheta ==
    /\ tOp = "none"
    /\ tOp' = "limitTheta"
    /\ tRet' = limitTheta(tArg)
    /\ UNCHANGED <<tArg, tIdx, trig, tAbc, Xdq, Xalbt>>
    /\ UNCHANGED pwmcVars

CallSin2 ==
    /\ tOp = "none"
    /\ tOp' = "sin2"
    /\ tRet' \in sin2(tArg)
    /\ tIdx' = <<sin2Idx(tArg)>>
    /\ UNCHANGED <<tArg, trig, tAbc, Xdq, Xalbt>>
    /\ UNCHANGED pwmcVars

CallCos2 ==
    /\ tOp = "none"
    /\ tOp' = "cos2"
    /\ tRet' \in cos2(tArg)
    /\ tIdx' = <<cos2Idx(tArg)>>
    /\ UNCHANGED <<tArg, trig, tAbc, Xdq, Xalbt>>
    /\ UNCHANGED pwmcVars

\* The six globals as computeSinCos(thetaElec) can leave them.
TrigAfter(thetaElec) ==
    LET a == SinCosAngles(thetaElec)
    IN  { [sin000 |-> s0, cos000 |-> c0, sin120 |-> s1,
           sin240 |-> s2, cos120 |-> c1, cos240 |-> c2] :
              s0 \in sin2(a[1]), c0 \in sin2(a[2]), s1 \in sin2(a[3]),
              s2 \in sin2(a[4]), c1 \in sin2(a[5]), c2 \in sin2(a[6]) }

\* void computeSinCos(int16_t thetaElec)
computeSinCos ==
    /\ tOp = "none"
    /\ tOp' = "computeSinCos"
    /\ trig' \in TrigAfter(tArg)
    /\ tIdx' = [i \in 1..6 |-> sin2Idx(SinCosAngles(tArg)[i])]
    /\ tRet' = 0
    /\ UNCHANGED <<tArg, tAbc, Xdq, Xalbt>>
    /\ UNCHANGED pwmcVars

\* The largest int (32 bits).
Int32Max == 2147483647

\* What an int expression that overflows can leave in a 16-bit field: the
\* overflow is undefined, three sample values stand for the outcome.
OverflowWords == {Int16Min, 0, Int16Max}

\* A scaling that divides by 768 before it multiplies by 1000.
ParkScaleDivideFirst(sum) == {ToInt16(CDiv(sum, 768) * 1000)}

\* sum * 1000 / 768 in int arithmetic, stored in an int16_t field of *Xdq:
\* the values the field can hold after the assignment.
ParkScale(sum) ==
    IF sum <= CDiv(Int32Max, 1000) /\ -sum <= CDiv(Int32Max, 1000)
    THEN {ToInt16(CDiv(sum * 1000, 768))}
    ELSE OverflowWords

\* void parkTransform(short a, short b, short c, volatile qd_t *Xdq)
parkTransform(a, b, c) ==
    /\ tOp \in {"none", "computeSinCos", "clarkeTransform"}
    /\ tOp' = "parkTransform"
    /\ tAbc' = <<a, b, c>>
    /\ \E d \in ParkScale(trig.sin000 * a + trig.sin240 * b + trig.sin120 * c),
          q \in ParkScale(trig.cos000 * a + trig.cos240 * b + trig.cos120 * c) :
          Xdq' = [d |-> d, q |-> q]
    /\ UNCHANGED <<tArg, tRet, tIdx, trig, Xalbt>>
    /\ UNCHANGED pwmcVars

\* void clarkeTransform(int16_t a, int16_t b, int16_t c, alphabeta_t *Xalbt)
clarkeTransform(a, b, c) ==
    /\ tOp \in {"none", "computeSinCos", "parkTransform"}
    /\ tOp' = "clarkeTransform"
    /\ tAbc' = <<a, b, c>>
    /\ Xalbt' = [alpha |-> ToInt16(CDiv(a * 2, 3) - CDiv(b + c, 3)),
                 beta  |-> ToInt16(CDiv((b - c) * 250, 433))]
    /\ UNCHANGED <<tArg, tRet, tIdx, trig, Xdq>>
    /\ UNCHANGED pwmcVars

(***************************************************************************)
(* PWM and current feedback: the handle                                    *)
(***************************************************************************)

\* The callback pointers of PWMC_Handle_t this file calls through.
Callbacks ==
    {"pFctGetPhaseCurrents", "pFctSwitchOffPwm", "pFctSwitchOnPwm",
     "pFctCurrReadingCalib", "pFctTurnOnLowSides", "pFctSetADCSampPointSectX",
     "pFctIsOverCurrentOccurred", "pFctOCPSetReferenceVoltage",
     "pFctRLDetectionModeEnable", "pFctRLDetectionModeDisable",
     "pFctRLDetectionModeSetDuty", "pFctSetOffsetCalib", "pFctGetOffsetCalib"}

AllBound == [c \in Callbacks |-> TRUE]

\* The handle after static initialisation; the configuration fields
\* (PWMperiod, hT_Sqrt3, DTTest, DTCompCnt, OffCalibrWaitTicks) are set by
\* each specification's initial predicate.  Sector holds n for SECTOR_n;
\* SECTOR_1 is the zero value of the field.
HandleZero ==
    [PWMperiod |-> 0, hT_Sqrt3 |-> 0, DTTest |-> 0, DTCompCnt |-> 0,
     Ia |-> 0, Ib |-> 0, Ic |-> 0,
     IaEst |-> 0, IbEst |-> 0, IcEst |-> 0,
     LPFIqBuf |-> 0, LPFIdBuf |-> 0, LPFIqd_const |-> 0,
     Sector |-> 1, lowDuty |-> 0, midDuty |-> 0, highDuty |-> 0,
     CntPhA |-> 0, CntPhB |-> 0, CntPhC |-> 0,
     OffCalibrWaitTicks |-> 0, OffCalibrWaitTimeCounter |-> 0]

\* What a callback invoked now can read of the handle's outputs.
View(h) == <<h.Sector, h.CntPhA, h.CntPhB, h.CntPhC>>

Invoke(cb, h, ans) == [cb |-> cb, view |-> View(h), ans |-> ans]

OpRec(fn, isNull, a, b) == [fn |-> fn, null |-> isNull, a |-> a, b |-> b]

HistZero == [started |-> FALSE, abandoned |-> FALSE,
             execs |-> 0, reads |-> 0, offs |-> 0]

\* No estimator call yet.
EstZero == [q |-> 0, d |-> 0, alpha |-> 0, beta |-> 0,
            run |-> 0, settled |-> FALSE,
            startQ |-> 0, startD |-> 0,
            prevQ |-> 0, prevD |-> 0, outQ |-> 0, outD |-> 0]

(***************************************************************************)
(* PWMC_SetPhaseVoltage (pwm_curr_fdbk.c)                                  *)
(***************************************************************************)

\* Projections with wUBeta taken without the change of sign.
ProjectionsBetaSign(h, alpha, beta) ==
    LET wUAlpha == alpha * h.hT_Sqrt3
        wUBeta  == (beta * h.PWMperiod) * 2
    IN  [wX |-> wUBeta,
         wY |-> CDiv(wUBeta + wUAlpha, 2),
         wZ |-> CDiv(wUBeta - wUAlpha, 2)]

\* Projections with wY and wZ left whole, not halved.
ProjectionsNoHalf(h, alpha, beta) ==
    LET wUAlpha == alpha * h.hT_Sqrt3
        wUBeta  == -(beta * h.PWMperiod) * 2
    IN  [wX |-> wUBeta,
         wY |-> wUBeta + wUAlpha,
         wZ |-> wUBeta - wUAlpha]

\* wUAlpha, wUBeta and the projections wX, wY, wZ, all int32_t.  With the
\* period constants and voltages drawn below every intermediate fits in 32
\* bits (the model checker's integers are 32-bit and it stops on overflow).
Projections(h, alpha, beta) ==
    LET wUAlpha == alpha * h.hT_Sqrt3
        wUBeta  == -(beta * h.PWMperiod) * 2
    IN  [wX |-> wUBeta,
         wY |-> CDiv(wUBeta + wUAlpha, 2),
         wZ |-> CDiv(wUBeta - wUAlpha, 2)]

\* One branch of the sector calculation: the sector, the three timings and
\* the duty slots.
Branch(sector, tA, tB, tC, low, mid, high) ==
    [Sector |-> sector, wTimePhA |-> tA, wTimePhB |-> tB, wTimePhC |-> tC,
     lowDuty |-> ToUint16(low), midDuty |-> ToUint16(mid),
     highDuty |-> ToUint16(high)]

\* SectorCalc with the border wX = 0 of sectors 3 and 4 given to sector 3.
SectorCalcStrictX(h, alpha, beta) ==
    LET p  == Projections(h, alpha, beta)
        wX == p.wX
        wY == p.wY
        wZ == p.wZ
        q  == CDiv(h.PWMperiod, 4)
    IN  IF wY < 0
        THEN IF wZ < 0
             THEN LET tA == q + CDiv(wY - wZ, 262144)
                      tB == tA + CDiv(wZ, 131072)
                      tC == tA - CDiv(wY, 131072)
                  IN  Branch(5, tA, tB, tC, tC, tA, tB)
             ELSE IF wX < 0
                  THEN LET tA == q + CDiv(wX - wZ, 262144)
                           tB == tA + CDiv(wZ, 131072)
                           tC == tB - CDiv(wX, 131072)
                       IN  Branch(4, tA, tB, tC, tC, tB, tA)
                  ELSE LET tA == q + CDiv(wY - wX, 262144)
                           tC == tA - CDiv(wY, 131072)
                           tB == tC + CDiv(wX, 131072)
                       IN  Branch(3, tA, tB, tC, tB, tC, tA)
        ELSE IF wZ >= 0
             THEN LET tA == q + CDiv(wY - wZ, 262144)
                      tB == tA + CDiv(wZ, 131072)
                      tC == tA - CDiv(wY, 131072)
                  IN  Branch(2, tA, tB, tC, tB, tA, tC)
             ELSE IF wX <= 0
                  THEN LET tA == q + CDiv(wY - wX, 262144)
                           tC == tA - CDiv(wY, 131072)
                           tB == tC + CDiv(wX, 131072)
                       IN  Branch(6, tA, tB, tC, tA, tC, tB)
                  ELSE LET tA == q + CDiv(wX - wZ, 262144)
                           tB == tA + CDiv(wZ, 131072)
                           tC == tB - CDiv(wX, 131072)
                       IN  Branch(1, tA, tB, tC, tA, tB, tC)

\* The sector test on the projections p and the timings and duty slots of the
\* sector it selects.
SectorTimes(h, p) ==
    LET wX == p.wX
        wY == p.wY
        wZ == p.wZ
        q  == CDiv(h.PWMperiod, 4)
    IN  IF wY < 0
        THEN IF wZ < 0
             THEN LET tA == q + CDiv(wY - wZ, 262144)
                      tB == tA + CDiv(wZ, 131072)
                      tC == tA - CDiv(wY, 131072)
                  IN  Branch(5, tA, tB, tC, tC, tA, tB)
             ELSE IF wX <= 0
                  THEN LET tA == q + CDiv(wX - wZ, 262144)
                           tB == tA + CDiv(wZ, 131072)
                           tC == tB - CDiv(wX, 131072)
                       IN  Branch(4, tA, tB, tC, tC, tB, tA)
                  ELSE LET tA == q + CDiv(wY - wX, 262144)
                           tC == tA - CDiv(wY, 131072)
                           tB == tC + CDiv(wX, 131072)
                       IN  Branch(3, tA, tB, tC, tB, tC, tA)
        ELSE IF wZ >= 0
             THEN LET tA == q + CDiv(wY - wZ, 262144)
                      tB == tA + CDiv(wZ, 131072)
                      tC == tA - CDiv(wY, 131072)
                  IN  Branch(2, tA, tB, tC, tB, tA, tC)
             ELSE IF wX <= 0
                  THEN LET tA == q + CDiv(wY - wX, 262144)
                           tC == tA - CDiv(wY, 131072)
                           tB == tC + CDiv(wX, 131072)
                       IN  Branch(6, tA, tB, tC, tA, tC, tB)
                  ELSE LET tA == q + CDiv(wX - wZ, 262144)
                           tB == tA + CDiv(wZ, 131072)
                           tC == tB - CDiv(wX, 131072)
                       IN  Branch(1, tA, tB, tC, tA, tB, tC)

\* Sector calculation from wX, wY, wZ.
SectorCalc(h, alpha, beta) == SectorTimes(h, Projections(h, alpha, beta))

\* CntPhX = (uint16_t)(MAX(wTimePhX, 0))
ClampCnt(wTime) == ToUint16(MAX(wTime, 0))

\* A compensation that also adds the count for a current of zero.
DeadTimeCompNonNegative(h, cnt, current) ==
    IF h.DTTest = 1
    THEN IF current >= 0
         THEN ToUint16(cnt + h.DTCompCnt)
         ELSE ToUint16(cnt - h.DTCompCnt)
    ELSE cnt

\* Dead time compensation of one phase counter (uint16_t arithmetic).
DeadTimeComp(h, cnt, current) ==
    IF h.DTTest = 1
    THEN IF current > 0
         THEN ToUint16(cnt + h.DTCompCnt)
         ELSE ToUint16(cnt - h.DTCompCnt)
    ELSE cnt

\* The handle when PWMC_SetPhaseVoltage reaches its callback.
SetPhaseVoltageHandle(h, alpha, beta) ==
    LET s == SectorCalc(h, alpha, beta)
    IN  [h EXCEPT !.Sector = s.Sector,
                  !.lowDuty = s.lowDuty,
                  !.midDuty = s.midDuty,
                  !.highDuty = s.highDuty,
                  !.CntPhA = DeadTimeComp(h, ClampCnt(s.wTimePhA), h.Ia),
                  !.CntPhB = DeadTimeComp(h, ClampCnt(s.wTimePhB), h.Ib),
                  !.CntPhC = DeadTimeComp(h, ClampCnt(s.wTimePhC), h.Ic)]

\* The status codes of the sampling-point callback.
SampPointRets == {"MC_NO_ERROR", "MC_FOC_DURATION"}

\* A return that reports success whatever the callback answered.
SetPhaseVoltageReturnNoError(cbRet) == "MC_NO_ERROR"

\* returnValue = pHandle->pFctSetADCSampPointSectX(pHandle)
SetPhaseVoltageReturn(cbRet) == cbRet

\* uint16_t PWMC_SetPhaseVoltage(PWMC_Handle_t *pHandle, alphabeta_t Valfa_beta)
\* cbRet is what the sampling-point callback answers when it is invoked.
PWMC_SetPhaseVoltage(isNull, alpha, beta, cbRet) ==
    /\ op' = OpRec("PWMC_SetPhaseVoltage", isNull, alpha, beta)
    /\ IF isNull
       THEN IF nullChk
            THEN /\ ret' = "MC_NO_ERROR"          \* returnValue = 0U
                 /\ ub' = FALSE
                 /\ calls' = <<>>
                 /\ UNCHANGED pHandle
            ELSE /\ ub' = TRUE                    \* pHandle->hT_Sqrt3 on MC_NULL
                 /\ ret' \in SampPointRets
                 /\ calls' = <<>>
                 /\ UNCHANGED pHandle
       ELSE \E h \in {SetPhaseVoltageHandle(pHandle, alpha, beta)} :
                /\ pHandle' = h
                /\ IF pFct["pFctSetADCSampPointSectX"]
                   THEN /\ calls' = <<Invoke("pFctSetADCSampPointSectX", h, cbRet)>>
                        /\ ret' = SetPhaseVoltageReturn(cbRet)
                        /\ ub' = FALSE
                   ELSE /\ calls' = <<>>          \* call through MC_NULL
                        /\ ret' \in SampPointRets
                        /\ ub' = TRUE
    /\ UNCHANGED <<nullChk, misra, est, pFct, hist>>
    /\ UNCHANGED trigVars

(***************************************************************************)
(* Dispatch through the callback pointers                                  *)
(***************************************************************************)

\* A call that returns without touching the handle or a callback.
Neutral(r) ==
    /\ ret' = r
    /\ ub' = FALSE
    /\ calls' = <<>>

\* A call that dereferences MC_NULL: the handle itself, or a callback
\* pointer that is not bound.  What it returns is not determined.
NullDeref(rets) ==
    /\ ub' = TRUE
    /\ ret' \in rets
    /\ calls' = <<>>

\* A dispatch function whose body is one call through the pointer cb.
\*   chkHandle: the test MC_NULL == pHandle is compiled in
\*   chkFct:    the test MC_NULL == pHandle->cb is compiled in
\*   neutral:   what the function returns when a compiled-in test hits
\*   rets:      what the callback can return
Dispatch(fn, cb, isNull, chkHandle, chkFct, neutral, rets) ==
    /\ op' = OpRec(fn, isNull, 0, 0)
    /\ IF isNull
       THEN IF chkHandle THEN Neutral(neutral) ELSE NullDeref(rets)
       ELSE IF ~pFct[cb]
            THEN IF chkFct THEN Neutral(neutral) ELSE NullDeref(rets)
            ELSE \E r \in rets :
                 /\ calls' = <<Invoke(cb, pHandle, r)>>
                 /\ ret' = r
                 /\ ub' = FALSE
    /\ UNCHANGED <<nullChk, misra, est, pFct, hist>>
    /\ UNCHANGED trigVars

PWMC_SetOffsetCalib(isNull) ==
    /\ Dispatch("PWMC_SetOffsetCalib", "pFctSetOffsetCalib", isNull,
                TRUE, FALSE, "void", {"void"})
    /\ UNCHANGED pHandle

PWMC_GetOffsetCalib(isNull) ==
    /\ Dispatch("PWMC_GetOffsetCalib", "pFctGetOffsetCalib", isNull,
                TRUE, FALSE, "void", {"void"})
    /\ UNCHANGED pHandle

\* The function hands back the currents of phases A and B; phase C follows
\* from them (Ic = -Ia - Ib).  The bound implementation keeps the three in
\* Ia, Ib, Ic of the handle; ia, ib are the currents read when the callback
\* is invoked.
PWMC_GetPhaseCurrents(isNull, ia, ib) ==
    /\ Dispatch("PWMC_GetPhaseCurrents", "pFctGetPhaseCurrents", isNull,
                nullChk, FALSE, "void", {"void"})
    /\ pHandle' = IF ~isNull /\ pFct["pFctGetPhaseCurrents"]
                  THEN [pHandle EXCEPT !.Ia = ia, !.Ib = ib,
                                       !.Ic = ToInt16(-ia - ib)]
                  ELSE pHandle

PWMC_SwitchOffPWM(isNull) ==
    /\ Dispatch("PWMC_SwitchOffPWM", "pFctSwitchOffPwm", isNull,
                nullChk, FALSE, "void", {"void"})
    /\ UNCHANGED pHandle

PWMC_SwitchOnPWM(isNull) ==
    /\ Dispatch("PWMC_SwitchOnPWM", "pFctSwitchOnPwm", isNull,
                nullChk, FALSE, "void", {"void"})
    /\ UNCHANGED pHandle

PWMC_TurnOnLowSides(isNull) ==
    /\ Dispatch("PWMC_TurnOnLowSides", "pFctTurnOnLowSides", isNull,
                nullChk, FALSE, "void", {"void"})
    /\ UNCHANGED pHandle

PWMC_CheckOverCurrent(isNull) ==
    /\ Dispatch("PWMC_CheckOverCurrent", "pFctIsOverCurrentOccurred", isNull,
                nullChk, FALSE, "MC_NO_FAULTS", {"MC_NO_FAULTS", "MC_BREAK_IN"})
    /\ UNCHANGED pHandle

PWMC_OCPSetReferenceVoltage(isNull) ==
    /\ Dispatch("PWMC_OCPSetReferenceVoltage", "pFctOCPSetReferenceVoltage",
                isNull, nullChk, nullChk, "void", {"void"})
    /\ UNCHANGED pHandle

PWMC_RLDetectionModeEnable(isNull) ==
    /\ Dispatch("PWMC_RLDetectionModeEnable", "pFctRLDetectionModeEnable",
                isNull, nullChk, nullChk, "void", {"void"})
    /\ UNCHANGED pHandle

PWMC_RLDetectionModeDisable(isNull) ==
    /\ Dispatch("PWMC_RLDetectionModeDisable", "pFctRLDetectionModeDisable",
                isNull, nullChk, nullChk, "void", {"void"})
    /\ UNCHANGED pHandle

\* With the tests compiled in, retVal starts as MC_FOC_DURATION and is what
\* the function returns when a test hits.
PWMC_RLDetectionModeSetDuty(isNull) ==
    /\ Dispatch("PWMC_RLDetectionModeSetDuty", "pFctRLDetectionModeSetDuty",
                isNull, nullChk, nullChk, "MC_FOC_DURATION", SampPointRets)
    /\ UNCHANGED pHandle

\* The PWMC_Register...CallBack functions: each stores pCallBack (bound or
\* MC_NULL) in its pointer of the handle.
Registrable ==
    Callbacks \ {"pFctSetOffsetCalib", "pFctGetOffsetCalib"}

Unbound(f) == {c \in Callbacks : ~f[c]}

\* The most callback pointers left unbound at one time.
MaxUnbound == 1

PWMC_RegisterCallBack(cb, bound, isNull) ==
    /\ Cardinality(Unbound([pFct EXCEPT ![cb] = bound])) <= MaxUnbound
    /\ op' = OpRec("PWMC_RegisterCallBack", isNull, 0, 0)
    /\ IF isNull
       THEN /\ IF nullChk THEN Neutral("void") ELSE NullDeref({"void"})
            /\ UNCHANGED pFct
       ELSE /\ pFct' = [pFct EXCEPT ![cb] = bound]
            /\ Neutral("void")
    /\ UNCHANGED <<nullChk, misra, est, pHandle, hist>>
    /\ UNCHANGED trigVars

(***************************************************************************)
(* PWMC_CurrentReadingCalibr                                               *)
(***************************************************************************)

\* The EXEC calls counted since the last CRC_START.
MaxExecs == 6

\* The offset reads and switch-offs among the callbacks a call invoked.
CountCb(log, cb) == Cardinality({i \in 1..Len(log) : log[i].cb = cb})

\* A load of the wait counter that leaves a running countdown as it is.
LoadWaitCounterKeepRunning(h) ==
    IF h.OffCalibrWaitTimeCounter > 0
    THEN h
    ELSE [h EXCEPT !.OffCalibrWaitTimeCounter = h.OffCalibrWaitTicks]

\* A load of the wait counter that is one tick long.
LoadWaitCounterPlusOne(h) ==
    [h EXCEPT !.OffCalibrWaitTimeCounter = h.OffCalibrWaitTicks + 1]

\* pHandle->OffCalibrWaitTimeCounter = pHandle->OffCalibrWaitTicks
LoadWaitCounter(h) ==
    [h EXCEPT !.OffCalibrWaitTimeCounter = h.OffCalibrWaitTicks]

\* A test of the wait counter that also passes at zero.
CalibrWaitingAtZero(h) == h.OffCalibrWaitTimeCounter >= 0

\* if (pHandle->OffCalibrWaitTimeCounter > 0u)
CalibrWaiting(h) == h.OffCalibrWaitTimeCounter > 0

\* bool PWMC_CurrentReadingCalibr(PWMC_Handle_t *pHandle, CRCAction_t action)
\* A callback pointer that is not bound ends the call where it is called.
PWMC_CurrentReadingCalibr(isNull, action) ==
    /\ action = "CRC_EXEC" => hist.execs < MaxExecs
    /\ op' = OpRec("PWMC_CurrentReadingCalibr", isNull, action, 0)
    /\ IF isNull
       THEN /\ IF nullChk \/ action \notin {"CRC_START", "CRC_EXEC"}
               THEN Neutral(FALSE)
               ELSE NullDeref(BOOLEAN)
            /\ UNCHANGED <<pHandle, hist>>
       ELSE IF action = "CRC_START"
       THEN IF ~pFct["pFctSwitchOffPwm"]
            THEN /\ NullDeref(BOOLEAN)            \* in PWMC_SwitchOffPWM
                 /\ UNCHANGED <<pHandle, hist>>
            ELSE LET h == LoadWaitCounter(pHandle)
                     off == Invoke("pFctSwitchOffPwm", pHandle, "void")
                 IN  /\ pHandle' = h
                     /\ IF 0 = h.OffCalibrWaitTicks
                        THEN IF pFct["pFctCurrReadingCalib"]
                             THEN /\ calls' = <<off, Invoke("pFctCurrReadingCalib", h, "void")>>
                                  /\ ret' = TRUE
                                  /\ ub' = FALSE
                                  /\ hist' = [started |-> TRUE,
                                              abandoned |-> CalibrWaiting(pHandle),
                                              execs |-> 0,
                                              reads |-> 1, offs |-> 1]
                             ELSE /\ calls' = <<off>>
                                  /\ ret' \in BOOLEAN
                                  /\ ub' = TRUE
                                  /\ hist' = [started |-> TRUE,
                                              abandoned |-> CalibrWaiting(pHandle),
                                              execs |-> 0,
                                              reads |-> 0, offs |-> 1]
                        ELSE /\ calls' = <<off>>
                             /\ ret' = FALSE
                             /\ ub' = FALSE
                             /\ hist' = [started |-> TRUE,
                                         abandoned |-> CalibrWaiting(pHandle),
                                         execs |-> 0,
                                         reads |-> 0, offs |-> 1]
       ELSE IF action = "CRC_EXEC"
       THEN IF CalibrWaiting(pHandle)
            THEN LET h == [pHandle EXCEPT !.OffCalibrWaitTimeCounter =
                                              ToUint16(@ - 1)]
                 IN  /\ pHandle' = h
                     /\ IF 0 = h.OffCalibrWaitTimeCounter
                        THEN IF pFct["pFctCurrReadingCalib"]
                             THEN /\ calls' = <<Invoke("pFctCurrReadingCalib", h, "void")>>
                                  /\ ret' = TRUE
                                  /\ ub' = FALSE
                                  /\ hist' = [hist EXCEPT !.execs = @ + 1,
                                                          !.reads = @ + 1]
                             ELSE /\ NullDeref(BOOLEAN)
                                  /\ hist' = [hist EXCEPT !.execs = @ + 1]
                        ELSE /\ Neutral(FALSE)
                             /\ hist' = [hist EXCEPT !.execs = @ + 1]
            ELSE /\ Neutral(TRUE)
                 /\ hist' = [hist EXCEPT !.execs = @ + 1]
                 /\ UNCHANGED pHandle
       ELSE /\ Neutral(FALSE)                     \* Nothing to do
            /\ UNCHANGED <<pHandle, hist>>
    /\ UNCHANGED <<nullChk, misra, est, pFct>>
    /\ UNCHANGED trigVars

(***************************************************************************)
(* PWMC_LowPassFilter and PWMC_CalcPhaseCurrentsEst                        *)
(***************************************************************************)

\* (*out_buf) >> 15, an arithmetic shift that rounds down; with
\* FULL_MISRA_C_COMPLIANCY_PWM_CURR defined, (*out_buf) / 32768, which
\* truncates toward zero.
Scale15(m, x) == IF m THEN CDiv(x, 32768) ELSE x \div 32768

\* A filter that hands the input through when its time constant is zero.
LowPassFilterBufBypass(m, in, buf, t) ==
    IF t = 0 THEN in * 32768 ELSE buf + (in - Scale15(m, buf)) * t

\* A filter step that leaves out the time constant.
LowPassFilterBufUnscaled(m, in, buf, t) == buf + (in - Scale15(m, buf))

\* *out_buf after one call of PWMC_LowPassFilter(in, out_buf, t).  For an
\* accumulator whose output is a 16-bit value, an int16_t input and
\* 0 <= t <= 32768 the product and the sum fit the int32_t they are held in.
LowPassFilterBuf(m, in, buf, t) == buf + (in - Scale15(m, buf)) * t

\* The value PWMC_LowPassFilter returns, given the accumulator it has stored.
LowPassFilterOut(m, buf) == Scale15(m, buf)

\* sqrt(3) in the fixed-point format of the motor control library.
SQRT3FACTOR == 56756

\* temp2, the beta term of the reverse Clarke transformation.
Temp2(m, beta) ==
    IF m THEN CDiv(beta * SQRT3FACTOR, 32768)
         ELSE beta * (SQRT3FACTOR \div 32768)

\* An estimate that leaves out the division by 2.
HalfInt16Whole(x) == ToInt16(x)

\* The estimates of phases B and C: (int16_t)(temp1 -+ temp2) / 2, the
\* quotient stored in an int16_t.
HalfInt16(x) == ToInt16(CDiv(ToInt16(x), 2))

\* The calls made in a row with one Iqd before the filters settle on it.
MaxRun == 600

\* void PWMC_CalcPhaseCurrentsEst(PWMC_Handle_t *pHandle, qd_t Iqd,
\*                                int16_t hElAngledpp)
\* alpha, beta are what MCM_Rev_Park hands back for the filtered currents and
\* the angle.
PWMC_CalcPhaseCurrentsEst(isNull, Iq, Id, alpha, beta) ==
    LET same    == est.run > 0 /\ est.q = Iq /\ est.d = Id
        settled == same /\ est.outQ = Iq /\ est.outD = Id
    IN
    /\ (same /\ ~settled) => est.run < MaxRun
    /\ op' = OpRec("PWMC_CalcPhaseCurrentsEst", isNull, Iq, Id)
    /\ IF isNull
       THEN /\ IF nullChk THEN Neutral("void") ELSE NullDeref({"void"})
            /\ UNCHANGED <<pHandle, est>>
       ELSE LET t     == pHandle.LPFIqd_const
                bufQ  == LowPassFilterBuf(misra, Iq, pHandle.LPFIqBuf, t)
                bufD  == LowPassFilterBuf(misra, Id, pHandle.LPFIdBuf, t)
                temp1 == -alpha
                temp2 == Temp2(misra, beta)
            IN  /\ pHandle' = [pHandle EXCEPT
                                  !.LPFIqBuf = bufQ,
                                  !.LPFIdBuf = bufD,
                                  !.IaEst = alpha,
                                  !.IbEst = HalfInt16(temp1 - temp2),
                                  !.IcEst = HalfInt16(temp1 + temp2)]
                /\ est' = [q |-> Iq, d |-> Id, alpha |-> alpha, beta |-> beta,
                           run |-> IF settled THEN est.run
                                   ELSE IF same THEN est.run + 1 ELSE 1,
                           settled |-> settled,
                           startQ |-> IF same THEN est.startQ
                                      ELSE LowPassFilterOut(misra, pHandle.LPFIqBuf),
                           startD |-> IF same THEN est.startD
                                      ELSE LowPassFilterOut(misra, pHandle.LPFIdBuf),
                           prevQ |-> LowPassFilterOut(misra, pHandle.LPFIqBuf),
                           prevD |-> LowPassFilterOut(misra, pHandle.LPFIdBuf),
                           outQ |-> LowPassFilterOut(misra, bufQ),
                           outD |-> LowPassFilterOut(misra, bufD)]
                /\ Neutral("void")
    /\ UNCHANGED <<nullChk, misra, pFct, hist>>
    /\ UNCHANGED trigVars

(***************************************************************************)
(* Initial states and specifications                                       *)
(***************************************************************************)

TrigIdle ==
    /\ tOp = "none"
    /\ tArg = 0
    /\ tRet = 0
    /\ tIdx = <<>>
    /\ trig = TrigZero
    /\ tAbc = <<0, 0, 0>>
    /\ Xdq = XdqZero
    /\ Xalbt = XalbtZero

PwmcIdle ==
    /\ op = OpRec("none", FALSE, 0, 0)
    /\ ret = "void"
    /\ calls = <<>>
    /\ ub = FALSE
    /\ hist = HistZero
    /\ est = EstZero

\* --- SpecTrig: one call of a trigonometric function on a drawn angle.
InitTrig ==
    /\ tOp = "none"
    /\ tArg \in ThetaInputs
    /\ tRet = 0
    /\ tIdx = <<>>
    /\ trig = TrigZero
    /\ tAbc = <<0, 0, 0>>
    /\ Xdq = XdqZero
    /\ Xalbt = XalbtZero
    /\ nullChk = FALSE
    /\ misra = FALSE
    /\ pHandle = HandleZero
    /\ pFct = AllBound
    /\ PwmcIdle

NextTrig ==
    \/ CallLimitTheta
    \/ CallSin2
    \/ CallCos2
    \/ computeSinCos

SpecTrig == InitTrig /\ [][NextTrig]_vars

\* --- SpecPark: computeSinCos on a drawn angle and the transforms that use
\* the six globals, which start cleared or as an earlier computeSinCos(0)
\* left them.
ParkThetas == {-91, 0, 37, 90, 179, 271, 359, 32700}

\* Phase currents <<a, b, c>> handed to the transforms.
AbcInputs == { <<0, 0, 0>>, <<20, -7, -13>>, <<-20, 13, 7>>,
               <<1, 1, -2>>, <<7, 7, 7>>, <<-3, 20, -17>> }

InitPark ==
    /\ tOp = "none"
    /\ tArg \in ParkThetas
    /\ tRet = 0
    /\ tIdx = <<>>
    /\ trig \in {TrigZero} \cup TrigAfter(0)
    /\ tAbc = <<0, 0, 0>>
    /\ Xdq = XdqZero
    /\ Xalbt = XalbtZero
    /\ nullChk = FALSE
    /\ misra = FALSE
    /\ pHandle = HandleZero
    /\ pFct = AllBound
    /\ PwmcIdle

NextPark ==
    \/ computeSinCos
    \/ \E x \in AbcInputs : parkTransform(x[1], x[2], x[3])
    \/ \E x \in AbcInputs : clarkeTransform(x[1], x[2], x[3])

SpecPark == InitPark /\ [][NextPark]_vars

\* --- SpecParkRange: parkTransform on phase values over the whole range of
\* a short, with the six globals as computeSinCos leaves them for angles of
\* one turn (every table read inside sinTable).
RangeThetas == {0, 37, 90, 179, 271, 359}

\* Phase values <<a, b, c>>: small ones, the values next to the point where
\* 512 * a * 1000 leaves the int range (a = 4194), and the ends of the range.
AbcRange == { <<0, 0, 0>>, <<20, -7, -13>>, <<49, 0, 0>>, <<50, 0, 0>>,
              <<1000, -500, -500>>, <<4194, 0, 0>>, <<4195, 0, 0>>,
              <<-4195, 0, 0>>, <<Int16Max, Int16Min, 0>>,
              <<Int16Min, Int16Max, Int16Max>>,
              <<Int16Max, Int16Max, Int16Max>> }

InitParkRange ==
    /\ tOp = "none"
    /\ tArg \in RangeThetas
    /\ tRet = 0
    /\ tIdx = <<>>
    /\ trig \in {TrigZero} \cup TrigAfter(0)
    /\ tAbc = <<0, 0, 0>>
    /\ Xdq = XdqZero
    /\ Xalbt = XalbtZero
    /\ nullChk = FALSE
    /\ misra = FALSE
    /\ pHandle = HandleZero
    /\ pFct = AllBound
    /\ PwmcIdle

NextParkRange ==
    \/ computeSinCos
    \/ \E x \in AbcRange : parkTransform(x[1], x[2], x[3])
    \/ \E x \in AbcRange : clarkeTransform(x[1], x[2], x[3])

SpecParkRange == InitParkRange /\ [][NextParkRange]_vars

\* --- SpecLPF: PWMC_CalcPhaseCurrentsEst calls under both builds of the
\* filter arithmetic.
\* Time constants of the filters: off, the slowest, two in between, and the
\* two largest.
LPFConsts == {0, 1, 1024, 4096, 32767, 32768}

\* Accumulators <<LPFIqBuf, LPFIdBuf>> the handle can hold when the calls
\* start: cleared, next to a step of the output, and at the ends of the range
\* of accumulators whose output is a 16-bit value.
LPFBufs == { <<0, 0>>,
             <<5 * 32768 + 32760, -3 * 32768 + 5>>,
             <<32767 * 32768 + 32767, Int16Min * 32768>> }

\* The currents <<Iqd.q, Iqd.d>> handed in.
IqdInputs == { <<0, 0>>, <<6, -4>>, <<100, -100>>,
               <<Int16Min, Int16Max>>, <<Int16Max, Int16Min>> }

\* The reference currents change only while the filters are off or once they
\* have settled on the previous ones.
IqdStep(Iq, Id) ==
    \/ est.run = 0
    \/ est.q = Iq /\ est.d = Id
    \/ pHandle.LPFIqd_const = 0
    \/ est.outQ = est.q /\ est.outD = est.d

InitLPF ==
    /\ TrigIdle
    /\ PwmcIdle
    /\ nullChk = FALSE
    /\ misra \in BOOLEAN
    /\ pFct = AllBound
    /\ \E t \in LPFConsts, b \in LPFBufs :
          pHandle = [HandleZero EXCEPT !.LPFIqd_const = t,
                                       !.LPFIqBuf = b[1], !.LPFIdBuf = b[2]]

NextLPF ==
    \E i \in IqdInputs :
        /\ IqdStep(i[1], i[2])
        /\ PWMC_CalcPhaseCurrentsEst(FALSE, i[1], i[2], i[1], i[2])

SpecLPF == InitLPF /\ [][NextLPF]_vars

\* --- SpecSVPWM: duty computation on a bound, non-null handle.
\* Period constants of the handle, as pairs <<PWMperiod, hT_Sqrt3>>, with
\* hT_Sqrt3 = PWMperiod * SQRT3FACTOR / 16384.
PeriodConfigs == {<<4096, 14189>>, <<5666, 19627>>}
DTCompValues == {24}

\* Voltage components drawn: the ends of the 16-bit range, zero, values in
\* every sector, and values on the sector borders (wY = 0 and wZ = 0 at
\* alpha = +-8192, beta = 14189 with the first configuration).
VInputs == {Int16Min, -16384, -8192, -2048, 0, 8192, 14189, 16384, Int16Max}

\* Currents of phases A and B the current reading can hand back.
CurrentInputs == {-7, 0, 7}

InitSVPWM ==
    /\ TrigIdle
    /\ PwmcIdle
    /\ nullChk = FALSE
    /\ misra = FALSE
    /\ pFct = AllBound
    /\ \E p \in PeriodConfigs, d \in {0, 1}, c \in DTCompValues :
          pHandle = [HandleZero EXCEPT !.PWMperiod = p[1], !.hT_Sqrt3 = p[2],
                                       !.DTTest = d, !.DTCompCnt = c]

NextSVPWM ==
    \/ \E a \in VInputs, b \in VInputs, r \in SampPointRets :
          PWMC_SetPhaseVoltage(FALSE, a, b, r)
    \/ \E ia \in CurrentInputs, ib \in CurrentInputs :
          PWMC_GetPhaseCurrents(FALSE, ia, ib)

SpecSVPWM == InitSVPWM /\ [][NextSVPWM]_vars

\* --- SpecEst: the current estimator next to the current reading and the
\* duty computation with dead time compensation enabled; the filters follow
\* their input at once (the largest time constant).
\* What MCM_Rev_Park hands back, as pairs <<alpha, beta>>.
EstAlphaBeta == { <<0, 0>>, <<7, -3>>, <<-7, 3>>, <<1000, 3000>> }

EstIqd == { <<0, 0>>, <<6, -4>> }

EstV == {-16384, 0, 16384}

InitEst ==
    /\ TrigIdle
    /\ PwmcIdle
    /\ nullChk = FALSE
    /\ misra \in BOOLEAN
    /\ pFct = AllBound
    /\ pHandle = [HandleZero EXCEPT !.PWMperiod = 4096, !.hT_Sqrt3 = 14189,
                                    !.DTTest = 1, !.DTCompCnt = 24,
                                    !.LPFIqd_const = 32768]

NextEst ==
    \/ \E i \in EstIqd, ab \in EstAlphaBeta :
          PWMC_CalcPhaseCurrentsEst(FALSE, i[1], i[2], ab[1], ab[2])
    \/ \E ia \in CurrentInputs, ib \in CurrentInputs :
          PWMC_GetPhaseCurrents(FALSE, ia, ib)
    \/ \E a \in EstV, b \in EstV, r \in SampPointRets :
          PWMC_SetPhaseVoltage(FALSE, a, b, r)

SpecEst == InitEst /\ [][NextEst]_vars

\* --- SpecRevClarke: the reverse Clarke step of the estimator over the whole
\* range of what MCM_Rev_Park can hand back (int16_t alpha and beta), under
\* both builds of temp2.
RevAlphas == {Int16Min, -32767, -16384, -1001, -7, -1, 0, 1, 2, 7, 1000,
              16383, Int16Max}

RevBetas == {Int16Min, -9000, -3, -1, 0, 1, 2, 3000, 9459, Int16Max}

InitRevClarke ==
    /\ TrigIdle
    /\ PwmcIdle
    /\ nullChk = FALSE
    /\ misra \in BOOLEAN
    /\ pFct = AllBound
    /\ pHandle = [HandleZero EXCEPT !.LPFIqd_const = 32768]

NextRevClarke ==
    \E i \in EstIqd, a \in RevAlphas, b \in RevBetas :
        PWMC_CalcPhaseCurrentsEst(FALSE, i[1], i[2], a, b)

SpecRevClarke == InitRevClarke /\ [][NextRevClarke]_vars

\* --- SpecExample: the worked example of the duty computation (period 4096,
\* alpha = 0, beta = -2048, no compensation) after other calls, for several
\* values of hT_Sqrt3 up to the largest a uint16_t holds.
HTSqrt3Values == {0, 1, 14189, 65535}

\* Voltage components of the calls made around the example.
ExampleV == {-8192, 0, 8192}

InitExample ==
    /\ TrigIdle
    /\ PwmcIdle
    /\ nullChk = FALSE
    /\ misra = FALSE
    /\ pFct = AllBound
    /\ \E ht \in HTSqrt3Values :
          pHandle = [HandleZero EXCEPT !.PWMperiod = 4096, !.hT_Sqrt3 = ht,
                                       !.DTTest = 0, !.DTCompCnt = 24]

NextExample ==
    \/ \E a \in ExampleV, b \in ExampleV, r \in SampPointRets :
          PWMC_SetPhaseVoltage(FALSE, a, b, r)
    \/ \E r \in SampPointRets : PWMC_SetPhaseVoltage(FALSE, 0, -2048, r)
    \/ \E ia \in CurrentInputs, ib \in CurrentInputs :
          PWMC_GetPhaseCurrents(FALSE, ia, ib)

SpecExample == InitExample /\ [][NextExample]_vars

\* --- SpecCalibr: START / EXEC sequences on a bound, non-null handle.
MaxWaitTicks == 4

CRCActions == {"CRC_START", "CRC_EXEC", "other"}

InitCalibr ==
    /\ TrigIdle
    /\ PwmcIdle
    /\ nullChk = FALSE
    /\ misra = FALSE
    /\ pFct = AllBound
    /\ \E n \in 0 .. MaxWaitTicks :
          pHandle = [HandleZero EXCEPT !.OffCalibrWaitTicks = n]

NextCalibr ==
    \E action \in CRCActions : PWMC_CurrentReadingCalibr(FALSE, action)

SpecCalibr == InitCalibr /\ [][NextCalibr]_vars

\* --- SpecDispatch: every dispatch function, under both builds, with null
\* handles and callback pointers left unbound or unregistered.
InitDispatch ==
    /\ TrigIdle
    /\ PwmcIdle
    /\ nullChk \in BOOLEAN
    /\ misra = FALSE
    /\ pFct \in {f \in [Callbacks -> BOOLEAN] : Cardinality(Unbound(f)) <= MaxUnbound}
    /\ pHandle = [HandleZero EXCEPT !.PWMperiod = 4096, !.hT_Sqrt3 = 14189,
                                    !.OffCalibrWaitTicks = 1]

NextDispatch ==
    \/ \E n \in BOOLEAN : PWMC_SetOffsetCalib(n)
    \/ \E n \in BOOLEAN : PWMC_GetOffsetCalib(n)
    \/ \E n \in BOOLEAN : PWMC_GetPhaseCurrents(n, 7, -7)
    \/ \E n \in BOOLEAN, r \in SampPointRets : PWMC_SetPhaseVoltage(n, 0, -2048, r)
    \/ \E n \in BOOLEAN : PWMC_SwitchOffPWM(n)
    \/ \E n \in BOOLEAN : PWMC_SwitchOnPWM(n)
    \/ \E n \in BOOLEAN, action \in CRCActions : PWMC_CurrentReadingCalibr(n, action)
    \/ \E n \in BOOLEAN : PWMC_TurnOnLowSides(n)
    \/ \E n \in BOOLEAN : PWMC_CheckOverCurrent(n)
    \/ \E n \in BOOLEAN : PWMC_OCPSetReferenceVoltage(n)
    \/ \E n \in BOOLEAN : PWMC_RLDetectionModeEnable(n)
    \/ \E n \in BOOLEAN : PWMC_RLDetectionModeDisable(n)
    \/ \E n \in BOOLEAN : PWMC_RLDetectionModeSetDuty(n)
    \/ \E cb \in Registrable, b \in BOOLEAN, n \in BOOLEAN : PWMC_RegisterCallBack(cb, b, n)

SpecDispatch == InitDispatch /\ [][NextDispatch]_vars

(***************************************************************************)
(* Properties of the trigonometric engine (checked under SpecTrig)         *)
(***************************************************************************)

TrigRange == (-512) .. 512

\* C1: for every 16-bit angle, negative ones included, limitTheta returns
\* the r with 0 <= r < 360 that is congruent to the angle modulo 360.
C1_LimitThetaInRange ==
    tOp = "limitTheta" =>
        /\ tRet >= 0
        /\ tRet < 360
        /\ (tRet - tArg) % 360 = 0

\* C2: for every 16-bit angle, sin2, cos2 and computeSinCos read sinTable
\* only at an index in 0..90 and produce values in [-512, 512].
C2_LookupInTable ==
    /\ tOp \in {"sin2", "cos2", "computeSinCos"} =>
           \A i \in 1 .. Len(tIdx) : tIdx[i] \in SinTableIndex
    /\ tOp \in {"sin2", "cos2"} => tRet \in TrigRange
    /\ tOp = "computeSinCos" =>
           \A f \in DOMAIN trig : trig[f] \in TrigRange

\* C9: sin2(0) = 0, sin2(90) = 512, sin2(180) = 0, sin2(270) = -512, and
\* sin2(theta) = -sin2(theta + 180) for every theta with theta + 180
\* representable, negative theta included.
C9_SineHalfTurn ==
    tOp = "sin2" =>
        /\ tArg = 0 => tRet = 0
        /\ tArg = 90 => tRet = 512
        /\ tArg = 180 => tRet = 0
        /\ tArg = 270 => tRet = -512
        /\ tArg + 180 <= Int16Max => \A w \in sin2(tArg + 180) : tRet = -w

(***************************************************************************)
(* Properties of PWMC_SetPhaseVoltage (checked under SpecSVPWM)            *)
(***************************************************************************)

AfterSetPhaseVoltage == op.fn = "PWMC_SetPhaseVoltage" /\ ~op.null

\* The sectors the sign table of the claim selects for wX, wY, wZ.
TableSectors(wX, wY, wZ) ==
    { s \in 1 .. 6 :
        \/ s = 5 /\ wY < 0 /\ wZ < 0
        \/ s = 4 /\ wY < 0 /\ wZ >= 0 /\ wX <= 0
        \/ s = 3 /\ wY < 0 /\ wZ >= 0 /\ wX > 0
        \/ s = 2 /\ wY >= 0 /\ wZ >= 0
        \/ s = 6 /\ wY >= 0 /\ wZ < 0 /\ wX <= 0
        \/ s = 1 /\ wY >= 0 /\ wZ < 0 /\ wX > 0 }

\* C3: the stored Sector is the one and only sector the sign table on X, Y, Z
\* selects for the voltage of this call and the period constants, whatever
\* the Sector was before.
C3_SectorBySignTable ==
    AfterSetPhaseVoltage =>
        LET p == Projections(pHandle, op.a, op.b)
        IN  TableSectors(p.wX, p.wY, p.wZ) = {pHandle.Sector}

\* A call on the border wX = 0 (beta = 0, alpha < 0) that selected sector 4.
C3_Witness ==
    /\ AfterSetPhaseVoltage
    /\ op.b = 0
    /\ op.a < 0
    /\ pHandle.Sector = 4

\* The phase counters of this call before dead time compensation.
BaseCnt(h, alpha, beta) ==
    LET s == SectorCalc(h, alpha, beta)
    IN  [A |-> ClampCnt(s.wTimePhA), B |-> ClampCnt(s.wTimePhB),
         C |-> ClampCnt(s.wTimePhC)]

\* C4: after every call each phase counter is between 0 and the PWM
\* period, with compensation disabled or enabled.
C4_CountersWithinPeriod ==
    AfterSetPhaseVoltage =>
        \A c \in {pHandle.CntPhA, pHandle.CntPhB, pHandle.CntPhC} :
            c >= 0 /\ c <= pHandle.PWMperiod

\* C5: each call invokes the sampling-point callback exactly once, when
\* Sector and the counters have their final values, and returns what the
\* callback answered; the Sector and counters are those the inputs give,
\* whatever the answer was.
C5_SampPointOnceAtEnd ==
    AfterSetPhaseVoltage =>
        /\ Len(calls) = 1
        /\ calls[1].cb = "pFctSetADCSampPointSectX"
        /\ calls[1].view = View(pHandle)
        /\ ret = calls[1].ans
        /\ ret \in SampPointRets
        /\ View(pHandle) = View(SetPhaseVoltageHandle(pHandle, op.a, op.b))

\* A call whose callback reported the duration exceeded, with compensated
\* counters and a sector other than the initial one.
C5_Witness ==
    /\ AfterSetPhaseVoltage
    /\ ret = "MC_FOC_DURATION"
    /\ Len(calls) = 1
    /\ pHandle.DTTest = 1
    /\ pHandle.Ia > 0
    /\ pHandle.Sector = 5

\* One phase of C7: the counter is the uncompensated one plus DTCompCnt for a
\* positive current, minus DTCompCnt for a negative one, unchanged when
\* compensation is disabled.
ExactComp(h, cnt, base, current) ==
    /\ (h.DTTest = 1 /\ current > 0) => cnt = base + h.DTCompCnt
    /\ (h.DTTest = 1 /\ current < 0) => cnt = base - h.DTCompCnt
    /\ h.DTTest # 1 => cnt = base

\* C7: with compensation enabled each phase counter is the uncompensated
\* counter plus exactly DTCompCnt (positive current) or minus exactly
\* DTCompCnt (negative current), each phase by its own current; with
\* compensation disabled the counters are the clamped timings.
C7_ExactCompensation ==
    AfterSetPhaseVoltage =>
        LET b == BaseCnt(pHandle, op.a, op.b)
        IN  /\ ExactComp(pHandle, pHandle.CntPhA, b.A, pHandle.Ia)
            /\ ExactComp(pHandle, pHandle.CntPhB, b.B, pHandle.Ib)
            /\ ExactComp(pHandle, pHandle.CntPhC, b.C, pHandle.Ic)

(***************************************************************************)
(* Properties of PWMC_CurrentReadingCalibr (checked under SpecCalibr)      *)
(***************************************************************************)

AfterCalibr(action) ==
    op.fn = "PWMC_CurrentReadingCalibr" /\ ~op.null /\ op.a = action

\* The offset reads the last call made.
ReadsNow == CountCb(calls, "pFctCurrReadingCalib")

\* C6: START with wait 0 completes at once with one offset read; START with
\* wait N > 0 returns false, the EXEC calls after it return false N-1 times
\* and true the Nth time, and the one offset read is made in the Nth EXEC.
C6_CalibrCountdown ==
    LET N == pHandle.OffCalibrWaitTicks
    IN  /\ (AfterCalibr("CRC_START") /\ N = 0) =>
               ret = TRUE /\ ReadsNow = 1 /\ hist.reads = 1
        /\ (AfterCalibr("CRC_START") /\ N > 0) =>
               ret = FALSE /\ ReadsNow = 0 /\ hist.reads = 0
        /\ (AfterCalibr("CRC_EXEC") /\ hist.started /\ N > 0 /\ hist.execs < N) =>
               ret = FALSE /\ ReadsNow = 0 /\ hist.reads = 0
        /\ (AfterCalibr("CRC_EXEC") /\ hist.started /\ N > 0 /\ hist.execs = N) =>
               ret = TRUE /\ ReadsNow = 1 /\ hist.reads = 1

\* The third EXEC after a START with wait 3 has just completed the calibration.
C6_Witness ==
    /\ AfterCalibr("CRC_EXEC")
    /\ hist.started
    /\ pHandle.OffCalibrWaitTicks = 3
    /\ hist.execs = 3
    /\ ret = TRUE
    /\ hist.reads = 1

\* C10: an EXEC that finds the wait counter at zero returns true and changes
\* nothing: no callback is invoked and the handle, the counter included, is
\* as before; so for every such EXEC until the next START.
C10_ExecAtZeroIsIdle ==
    [][ ( /\ pHandle.OffCalibrWaitTimeCounter = 0
          /\ op'.fn = "PWMC_CurrentReadingCalibr"
          /\ ~op'.null
          /\ op'.a = "CRC_EXEC" )
        => ( /\ ret' = TRUE
             /\ calls' = <<>>
             /\ pHandle' = pHandle
             /\ hist'.reads = hist.reads
             /\ hist'.offs = hist.offs ) ]_vars

\* Two EXEC calls past the completion of a started calibration: the last one
\* returned true without a callback, and the one offset read stays the only one.
C10_Witness ==
    /\ AfterCalibr("CRC_EXEC")
    /\ hist.started
    /\ hist.execs >= pHandle.OffCalibrWaitTicks + 2
    /\ pHandle.OffCalibrWaitTimeCounter = 0
    /\ ret = TRUE
    /\ calls = <<>>
    /\ hist.reads = 1

(***************************************************************************)
(* Properties of the dispatch functions (checked under SpecDispatch)       *)
(***************************************************************************)

\* The callback each dispatch function calls through.
CallbackOf ==
    [PWMC_SetOffsetCalib |-> "pFctSetOffsetCalib",
     PWMC_GetOffsetCalib |-> "pFctGetOffsetCalib",
     PWMC_GetPhaseCurrents |-> "pFctGetPhaseCurrents",
     PWMC_SetPhaseVoltage |-> "pFctSetADCSampPointSectX",
     PWMC_SwitchOffPWM |-> "pFctSwitchOffPwm",
     PWMC_SwitchOnPWM |-> "pFctSwitchOnPwm",
     PWMC_CurrentReadingCalibr |-> "pFctCurrReadingCalib",
     PWMC_TurnOnLowSides |-> "pFctTurnOnLowSides",
     PWMC_CheckOverCurrent |-> "pFctIsOverCurrentOccurred",
     PWMC_RLDetectionModeEnable |-> "pFctRLDetectionModeEnable",
     PWMC_RLDetectionModeDisable |-> "pFctRLDetectionModeDisable",
     PWMC_RLDetectionModeSetDuty |-> "pFctRLDetectionModeSetDuty"]

\* The neutral results: nothing for a void function, false for a boolean
\* one, the no-error / no-fault code for a status.
NeutralResults == {"void", FALSE, "MC_NO_ERROR", "MC_NO_FAULTS"}

\* C8: a dispatch function called with a null handle or with its callback
\* unbound calls through no pointer, invokes no callback of its own and
\* yields a neutral result.
C8_GuardedDispatch ==
    (op.fn \in DOMAIN CallbackOf /\ (op.null \/ ~pFct[CallbackOf[op.fn]])) =>
        /\ ~ub
        /\ \A i \in 1 .. Len(calls) : calls[i].cb # CallbackOf[op.fn]
        /\ ret \in NeutralResults

(***************************************************************************)
(* Properties of the low-pass filter (checked under SpecLPF)               *)
(***************************************************************************)

AfterCalcPhaseCurrentsEst == op.fn = "PWMC_CalcPhaseCurrentsEst" /\ ~op.null

\* C11: with time constant 0 a call changes neither accumulator, and the
\* output it computes is the output the accumulator had before, whatever the
\* input; so the output stays the initial one over any sequence of calls.
C11_ZeroConstHoldsOutput ==
    [][ ( /\ pHandle.LPFIqd_const = 0
          /\ op'.fn = "PWMC_CalcPhaseCurrentsEst"
          /\ ~op'.null )
        => ( /\ pHandle'.LPFIqBuf = pHandle.LPFIqBuf
             /\ pHandle'.LPFIdBuf = pHandle.LPFIdBuf
             /\ est'.outQ = est'.prevQ
             /\ est'.outD = est'.prevD
             /\ est.run > 0 => (est'.outQ = est.outQ /\ est'.outD = est.outD) ) ]_vars

\* Three calls in a row with the largest input while the filters are off:
\* the outputs are still those of the initial accumulators.
C11_Witness ==
    /\ AfterCalcPhaseCurrentsEst
    /\ pHandle.LPFIqd_const = 0
    /\ est.run >= 3
    /\ est.q = Int16Max
    /\ est.outQ = 5
    /\ est.outD = -3

Abs(x) == IF x < 0 THEN -x ELSE x

\* The outputs move toward the input and never past it.
Between(prev, out, in) ==
    /\ prev <= in => (prev <= out /\ out <= in)
    /\ prev >= in => (in <= out /\ out <= prev)

\* Ticks within which a filter with time constant t settles on an input at
\* distance dist from its output: SettleFactor time constants of
\* 32768 / t ticks, fewer when the input is near.
SettleFactor == 13

SettleBound(t, dist) ==
    ((32768 \div t) + 1) * (IF dist + 1 < SettleFactor THEN dist + 1 ELSE SettleFactor)

\* C12: for a constant input and a time constant from 1 to 32768 the output
\* moves toward the input without passing it, equals the input after a
\* bounded number of calls, and once equal stays equal.
C12_SettlesOnConstantInput ==
    (AfterCalcPhaseCurrentsEst /\ pHandle.LPFIqd_const >= 1) =>
        LET t    == pHandle.LPFIqd_const
            dq   == Abs(est.q - est.startQ)
            dd   == Abs(est.d - est.startD)
            dist == IF dq > dd THEN dq ELSE dd
        IN  /\ Between(est.prevQ, est.outQ, est.q)
            /\ Between(est.prevD, est.outD, est.d)
            /\ est.settled => (est.outQ = est.q /\ est.outD = est.d)
            /\ (est.outQ # est.q \/ est.outD # est.d) =>
                   est.run < SettleBound(t, dist)

\* A filter with time constant 1024 that has gone from one end of the range
\* to the other and stayed there.
C12_Witness ==
    /\ AfterCalcPhaseCurrentsEst
    /\ pHandle.LPFIqd_const = 1024
    /\ est.q = Int16Min
    /\ est.startQ = Int16Max
    /\ est.run > 100
    /\ est.settled
    /\ est.outQ = Int16Min

(***************************************************************************)
(* The worked example of PWMC_SetPhaseVoltage (checked under SpecExample)  *)
(***************************************************************************)

\* C13: with PWMperiod = 4096 and compensation disabled, the call with
\* alpha = 0, beta = -2048 leaves the same Sector (SECTOR_2) whatever
\* hT_Sqrt3 and the handle were before, and each phase counter in 0..4096.
C13_ExampleSectorAndCounters ==
    ( /\ AfterSetPhaseVoltage
      /\ op.a = 0
      /\ op.b = -2048
      /\ pHandle.PWMperiod = 4096
      /\ pHandle.DTTest = 0 ) =>
        /\ pHandle.Sector = 2
        /\ \A c \in {pHandle.CntPhA, pHandle.CntPhB, pHandle.CntPhC} :
               c >= 0 /\ c <= 4096

\* The example call with the largest hT_Sqrt3, made after a current reading
\* (so not the first call on the handle).
C13_Witness ==
    /\ AfterSetPhaseVoltage
    /\ op.a = 0
    /\ op.b = -2048
    /\ pHandle.hT_Sqrt3 = 65535
    /\ pHandle.Ia = 7
    /\ pHandle.Sector = 2
    /\ pHandle.CntPhB = 1088

(***************************************************************************)
(* Dead time compensation and the estimator (checked under SpecEst)        *)
(***************************************************************************)

\* One phase compensated by the sign of an estimate: the count is added for
\* a positive estimate and subtracted for a negative one.
CompByEstimate(h, cnt, base, estimate) ==
    /\ estimate > 0 => cnt = ToUint16(base + h.DTCompCnt)
    /\ estimate < 0 => cnt = ToUint16(base - h.DTCompCnt)

CompByReading(h, cnt, base, current) ==
    cnt = IF current > 0 THEN ToUint16(base + h.DTCompCnt)
                         ELSE ToUint16(base - h.DTCompCnt)

Sqrt3Times(beta) == CDiv(beta * SQRT3FACTOR, 32768)

\* C16: the estimator stores IaEst = alpha, IbEst = (-alpha - beta*sqrt3)/2
\* and IcEst = (-alpha + beta*sqrt3)/2, with sqrt3 the fixed-point square
\* root of 3 (SQRT3FACTOR / 2^15), not 1.
C16_ReverseClarkeSqrt3 ==
    AfterCalcPhaseCurrentsEst =>
        /\ pHandle.IaEst = est.alpha
        /\ pHandle.IbEst = CDiv(-est.alpha - Sqrt3Times(est.beta), 2)
        /\ pHandle.IcEst = CDiv(-est.alpha + Sqrt3Times(est.beta), 2)

(***************************************************************************)
(* The projections of PWMC_SetPhaseVoltage (checked under SpecExample)     *)
(***************************************************************************)

\* Ualpha = Valpha * hT_Sqrt3 and Ubeta = -Vbeta * PWMperiod * 2.
Ualpha(h, alpha) == alpha * h.hT_Sqrt3
Ubeta(h, beta) == -(beta * h.PWMperiod) * 2

\* The handle holds the Sector and the duty slots that the sector test and
\* the duty formulas give for the projections p.
UsesProjections(h, p) ==
    LET s == SectorTimes(h, p)
    IN  /\ h.Sector = s.Sector
        /\ h.lowDuty = s.lowDuty
        /\ h.midDuty = s.midDuty
        /\ h.highDuty = s.highDuty

\* C15: the sector test and the duty formulas use X = Ubeta*2,
\* Y = (Ubeta + Ualpha)/2 and Z = (Ubeta - Ualpha)/2.
C15_ProjectionsDoubleX ==
    AfterSetPhaseVoltage =>
        LET uAlpha == Ualpha(pHandle, op.a)
            uBeta == Ubeta(pHandle, op.b)
        IN  UsesProjections(pHandle, [wX |-> uBeta * 2,
                                      wY |-> CDiv(uBeta + uAlpha, 2),
                                      wZ |-> CDiv(uBeta - uAlpha, 2)])

\* C15 as amended: the sector test and the duty formulas use X = Ubeta,
\* Y = (Ubeta + Ualpha)/2 and Z = (Ubeta - Ualpha)/2.
C15_ProjectionsXIsUbeta ==
    AfterSetPhaseVoltage =>
        LET uAlpha == Ualpha(pHandle, op.a)
            uBeta == Ubeta(pHandle, op.b)
        IN  UsesProjections(pHandle, [wX |-> uBeta,
                                      wY |-> CDiv(uBeta + uAlpha, 2),
                                      wZ |-> CDiv(uBeta - uAlpha, 2)])

\* A call in SECTOR_1, whose timings take X into account, with X above zero.
C15_Witness ==
    /\ AfterSetPhaseVoltage
    /\ pHandle.Sector = 1
    /\ op.b = -8192
    /\ pHandle.hT_Sqrt3 = 14189
    /\ pHandle.lowDuty > pHandle.midDuty
    /\ pHandle.midDuty > pHandle.highDuty

(***************************************************************************)
(* The duty slots of PWMC_SetPhaseVoltage (checked under SpecSVPWM)        *)
(***************************************************************************)

\* The orders in which three timings can fill the three slots.
SlotOrders == { <<1, 2, 3>>, <<1, 3, 2>>, <<2, 1, 3>>,
                <<2, 3, 1>>, <<3, 1, 2>>, <<3, 2, 1>> }

\* C17: after every call the duty slots hold the three phase timings of the
\* call, each once, and lowDuty >= midDuty >= highDuty, also when a timing is
\* negative.
C17_DutySlotsOrdered ==
    AfterSetPhaseVoltage =>
        LET s == SectorCalc(pHandle, op.a, op.b)
            T == <<s.wTimePhA, s.wTimePhB, s.wTimePhC>>
        IN  /\ \E o \in SlotOrders :
                   /\ pHandle.lowDuty = T[o[1]]
                   /\ pHandle.midDuty = T[o[2]]
                   /\ pHandle.highDuty = T[o[3]]
            /\ pHandle.lowDuty >= pHandle.midDuty
            /\ pHandle.midDuty >= pHandle.highDuty

(***************************************************************************)
(* computeSinCos and the transforms (checked under SpecPark)               *)
(***************************************************************************)

\* The one value sin2 returns for the int angle x, converted to short as at
\* the call.
IsSin2(v, x) == sin2(ToInt16(x)) = {v}

\* The one value cos2 returns for the int angle x: sin2(x + 90).
IsCos2(v, x) == sin2(ToInt16(ToInt16(x) + 90)) = {v}

\* C18: after computeSinCos(theta) the six globals are sin2 and cos2 of
\* theta+90, theta+90+120 and theta+90+240, values that theta alone
\* determines, with cos2(x) = sin2(x+90); parkTransform and clarkeTransform
\* leave the six unchanged.
C18_TrigTripletFromTheta ==
    /\ [](tOp = "computeSinCos" =>
            LET th == ToInt16(tArg + 90)
            IN  /\ IsSin2(trig.sin000, th)
                /\ IsSin2(trig.sin120, th + 120)
                /\ IsSin2(trig.sin240, th + 240)
                /\ IsCos2(trig.cos000, th)
                /\ IsCos2(trig.cos120, th + 120)
                /\ IsCos2(trig.cos240, th + 240))
    /\ [][tOp' \in {"parkTransform", "clarkeTransform"} => trig' = trig]_vars

\* The quotient of the claim, as the 16-bit field of *Xdq holds it.
ParkQuotient(s0, s240, s120) ==
    ToInt16(CDiv((s0 * tAbc[1] + s240 * tAbc[2] + s120 * tAbc[3]) * 1000, 768))

\* C19: parkTransform(a, b, c) leaves d = (sin000*a + sin240*b + sin120*c)
\* * 1000 / 768 and q = (cos000*a + cos240*b + cos120*c) * 1000 / 768, the
\* product by 1000 taken before the truncating division, from the six
\* globals as they are, and writes nothing else.
C19_ParkScaledBy1000Over768 ==
    /\ [](tOp = "parkTransform" =>
            /\ Xdq.d = ParkQuotient(trig.sin000, trig.sin240, trig.sin120)
            /\ Xdq.q = ParkQuotient(trig.cos000, trig.cos240, trig.cos120))
    /\ [][tOp' = "parkTransform" =>
            /\ trig' = trig
            /\ Xalbt' = Xalbt
            /\ tArg' = tArg
            /\ UNCHANGED pwmcVars]_vars

\* parkTransform(20, -7, -13) after computeSinCos(37) and a clarkeTransform:
\* the sums are not multiples of 768 and the one of d is negative, so the
\* order of the product and the division and the rounding both show.
C19_Witness ==
    /\ tOp = "parkTransform"
    /\ tArg = 37
    /\ tAbc = <<20, -7, -13>>
    /\ trig \in TrigAfter(37)
    /\ Xalbt # XalbtZero
    /\ Xdq.d # 0
    /\ Xdq.q # 0

(***************************************************************************)
(* START and EXEC sequences of the calibration (checked under SpecCalibr)  *)
(***************************************************************************)

\* C20: each START invokes the switch-off callback once, before any offset
\* read; after a START, and until the next, the offset is read at most once,
\* and not before the configured wait has been counted from that START; a
\* START that finds a countdown running reloads the counter and reads no
\* offset for the countdown it abandons.
C20_StartSwitchesOffAndRestarts ==
    /\ [](LET N == pHandle.OffCalibrWaitTicks
          IN  /\ AfterCalibr("CRC_START") =>
                     /\ CountCb(calls, "pFctSwitchOffPwm") = 1
                     /\ calls[1].cb = "pFctSwitchOffPwm"
                     /\ hist.offs = 1
              /\ AfterCalibr("CRC_EXEC") =>
                     CountCb(calls, "pFctSwitchOffPwm") = 0
              /\ hist.reads <= 1
              /\ hist.reads = 1 => (hist.started /\ hist.execs >= N))
    /\ [][ ( /\ pHandle.OffCalibrWaitTimeCounter > 0
             /\ op'.fn = "PWMC_CurrentReadingCalibr"
             /\ ~op'.null
             /\ op'.a = "CRC_START" )
           => ( /\ pHandle'.OffCalibrWaitTimeCounter = pHandle.OffCalibrWaitTicks
                /\ CountCb(calls', "pFctCurrReadingCalib") = 0
                /\ hist'.reads = 0
                /\ hist'.execs = 0 ) ]_vars

\* A calibration restarted while its countdown was running: the offset was
\* read once, by the third EXEC after the second START, the wait being 3.
C20_Witness ==
    /\ AfterCalibr("CRC_EXEC")
    /\ hist.started
    /\ hist.abandoned
    /\ pHandle.OffCalibrWaitTicks = 3
    /\ hist.execs = 3
    /\ hist.reads = 1
    /\ ReadsNow = 1
    /\ ret = TRUE

(***************************************************************************)
(* Dead time compensation at zero current (checked under SpecSVPWM)        *)
(***************************************************************************)

\* One phase of C21: with a current of exactly zero the counter is the one
\* computed with compensation disabled.
ZeroCurrentKept(cnt, base, current) == current = 0 => cnt = base

\* C21: with compensation enabled, a phase whose current is exactly zero is
\* left uncompensated by PWMC_SetPhaseVoltage: its counter equals the clamped
\* timing, the counter of the same call with compensation disabled.
C21_ZeroCurrentUncompensated ==
    (AfterSetPhaseVoltage /\ pHandle.DTTest = 1) =>
        LET b == BaseCnt(pHandle, op.a, op.b)
        IN  /\ ZeroCurrentKept(pHandle.CntPhA, b.A, pHandle.Ia)
            /\ ZeroCurrentKept(pHandle.CntPhB, b.B, pHandle.Ib)
            /\ ZeroCurrentKept(pHandle.CntPhC, b.C, pHandle.Ic)

(***************************************************************************)
(* The sum of the estimates (checked under SpecRevClarke)                  *)
(***************************************************************************)

Fits16(x) == x >= Int16Min /\ x <= Int16Max

\* The intermediate values of the last estimator call fit in 16 bits: the
\* two converted to int16_t, temp1 - temp2 and temp1 + temp2 (temp1 and
\* temp2, half their sum and half their difference, then fit as well).
EstFits16 ==
    LET temp1 == -est.alpha
        temp2 == Temp2(misra, est.beta)
    IN  Fits16(temp1 - temp2) /\ Fits16(temp1 + temp2)

EstSum == pHandle.IaEst + pHandle.IbEst + pHandle.IcEst

\* C22: after every call of PWMC_CalcPhaseCurrentsEst whose intermediate
\* values fit in 16 bits, IaEst + IbEst + IcEst is 0 up to a rounding error
\* of magnitude at most 1, whatever alpha and beta MCM_Rev_Park handed back.
C22_EstimatesSumToZero ==
    (AfterCalcPhaseCurrentsEst /\ EstFits16) => Abs(EstSum) <= 1

\* A call in the build that weights beta by sqrt(3), with both halves odd and
\* of one sign: the two truncations add up to a sum of 1.
C22_Witness ==
    /\ AfterCalcPhaseCurrentsEst
    /\ EstFits16
    /\ misra
    /\ est.alpha = 1000
    /\ est.beta = -3
    /\ pHandle.IbEst # pHandle.IcEst
    /\ EstSum = 1

(***************************************************************************)
(* The range of parkTransform (checked under SpecParkRange)                *)
(***************************************************************************)

\* Every entry of the six globals is between -512 and 512.
TripletInRange ==
    \A f \in DOMAIN trig : trig[f] >= -512 /\ trig[f] <= 512

\* The sums parkTransform multiplies by 1000, for the values of its call.
ParkSumD ==
    trig.sin000 * tAbc[1] + trig.sin240 * tAbc[2] + trig.sin120 * tAbc[3]

ParkSumQ ==
    trig.cos000 * tAbc[1] + trig.cos240 * tAbc[2] + trig.cos120 * tAbc[3]

\* sum * 1000 is within the 32-bit signed range.
TimesThousandFits(sum) ==
    sum <= CDiv(Int32Max, 1000) /\ -sum <= CDiv(Int32Max, 1000)

\* The exact integer sum * 1000 / 768 truncated toward zero, computed as
\* sum * 125 / 96 from the quotient and the remainder of sum by 96.
ExactQuotient(sum) ==
    LET k == CDiv(sum, 96)
        r == sum - 96 * k
    IN  125 * k + CDiv(125 * r, 96)

\* C23: for all a, b, c in the 16-bit signed range and every triplet with
\* entries in -512 .. 512, the product by 1000 stays within the 32-bit signed
\* range, and d and q are the exact truncated quotients, with no wrap-around.
C23_ParkNoWrapAround ==
    (tOp = "parkTransform" /\ TripletInRange) =>
        /\ TimesThousandFits(ParkSumD)
        /\ TimesThousandFits(ParkSumQ)
        /\ Xdq.d = ExactQuotient(ParkSumD)
        /\ Xdq.q = ExactQuotient(ParkSumQ)

====
